---- MODULE Spec2Model ----
(***************************************************************************)
(* Voice screens of the heart-health application.                          *)
(*                                                                         *)
(*   EnhancedVoiceUI  (src/unnamed/part_000): regular-expression command   *)
(*                    table, handlers, conversation, alerts, speech queue. *)
(*   VoiceAssistant   (src/frontend/app/voice-assistant.tsx): the AI       *)
(*                    Health Coach with substring command matching.        *)
(*                                                                         *)
(* Texts are strings; matching is done character by character, the way     *)
(* RegExp.test and String.includes do it.                                  *)
(***************************************************************************)
EXTENDS Integers, Sequences, FiniteSets, TLC

(***************************************************************************)
(* Bounds of the model.                                                    *)
(***************************************************************************)
\* longest conversation (voiceMessages / conversationHistory) explored
MaxMessages == 4
\* longest generated utterance, in words
MaxWords == 2

(***************************************************************************)
(* Strings.                                                                *)
(***************************************************************************)
UpperCaseLetters == "ABCDEFGHIJKLMNOPQRSTUVWXYZ"
LowerCaseLetters == "abcdefghijklmnopqrstuvwxyz"

CharAt(s, i) == SubSeq(s, i, i)

LowerChar(c) ==
    IF \E k \in 1..26 : CharAt(UpperCaseLetters, k) = c
    THEN CharAt(LowerCaseLetters, CHOOSE k \in 1..26 : CharAt(UpperCaseLetters, k) = c)
    ELSE c

\* String.prototype.toLowerCase
RECURSIVE toLowerCase(_)
toLowerCase(s) ==
    IF s = "" THEN "" ELSE LowerChar(CharAt(s, 1)) \o toLowerCase(SubSeq(s, 2, Len(s)))

\* String.prototype.trim
RECURSIVE trim(_)
trim(s) ==
    IF s = "" THEN ""
    ELSE IF CharAt(s, 1) = " " THEN trim(SubSeq(s, 2, Len(s)))
    ELSE IF CharAt(s, Len(s)) = " " THEN trim(SubSeq(s, 1, Len(s) - 1))
    ELSE s

\* String.prototype.includes
includes(s, sub) ==
    \E i \in 0..(Len(s) - Len(sub)) : SubSeq(s, i + 1, i + Len(sub)) = sub

\* what "." of a regular expression does not match
LineTerminators == {"\n", "\r"}

(***************************************************************************)
(* Regular expressions of the command table.  A pattern is a sequence of   *)
(* alternatives (a|b|c); an alternative is a sequence of literals joined   *)
(* by ".*" (show.*risk is <<"show", "risk">>).                             *)
(***************************************************************************)
RECURSIVE MatchFrom(_, _, _)
MatchFrom(literals, s, from) ==
    IF literals = <<>> THEN TRUE
    ELSE LET lit == Head(literals) IN
         \E i \in from..(Len(s) - Len(lit) + 1) :
            /\ SubSeq(s, i, i + Len(lit) - 1) = lit
            \* the gap ".*" between two literals holds no line terminator
            /\ (from > 1 => \A p \in from..(i - 1) : CharAt(s, p) \notin LineTerminators)
            /\ MatchFrom(Tail(literals), s, i + Len(lit))

\* RegExp.prototype.test with the /i flag (the literals are lower case)
test(pattern, s) ==
    \E a \in 1..Len(pattern) : MatchFrom(pattern[a], toLowerCase(s), 1)

(***************************************************************************)
(* What the user may say.                                                  *)
(***************************************************************************)
\* the phrases of the dialogue: the ones the screen advertises or sends itself
\* (lines 534, 541, 552-553) and a few others
Phrases ==
    { "show current risk", "I need emergency help", "Repeat last result",
      "stop listening" }

QuickPhrases == { "show current risk", "give me health tips" }

Words ==
    { "Show", "risk", "EMERGENCY", "pills", "repeat", "pause", "stroke", "better" }

RECURSIVE WordSeqs(_)
WordSeqs(n) ==
    IF n = 0 THEN {""}
    ELSE LET shorter == WordSeqs(n - 1)
         IN  shorter \cup { IF p = "" THEN w ELSE p \o " " \o w : p \in shorter, w \in Words }

\* every utterance of at most MaxWords words, the advertised phrases, and two
\* that match several rules
Utterances ==
    (WordSeqs(MaxWords) \ {""}) \cup Phrases \cup QuickPhrases
    \cup { "Show my heart attack risk", "Start new assessment", "Explain my results",
           "Next question", "Give me health tips", "What is my heart attack risk",
           "asdfasdf",
           "What is my risk, this is an emergency", "help me understand, it is urgent",
           "heart attack", "how can I improve", "lifestyle tips", "take my medicine" }

(***************************************************************************)
(* EnhancedVoiceUI: the command table, in source order.                    *)
(***************************************************************************)
\* a table with a label of its own
mislabelledCommands ==
    << [pattern |-> << <<"stop", "listening">>, <<"pause">>, <<"quiet">> >>,
        action |-> "mute"] >>

voiceCommands ==
    << [pattern |-> << <<"show", "risk">>, <<"what", "risk">>, <<"current", "risk">> >>,
        action  |-> "show_risk"],
       [pattern |-> << <<"start", "assessment">>, <<"new", "assessment">>, <<"take", "test">> >>,
        action  |-> "start_assessment"],
       [pattern |-> << <<"explain", "result">>, <<"what", "mean">>, <<"help", "understand">> >>,
        action  |-> "explain_results"],
       [pattern |-> << <<"medication", "remind">>, <<"take", "medicine">>, <<"pills">> >>,
        action  |-> "medication_reminder"],
       [pattern |-> << <<"emergency">>, <<"help", "urgent">>, <<"call", "doctor">> >>,
        action  |-> "emergency_help"],
       [pattern |-> << <<"next", "question">>, <<"continue">>, <<"proceed">> >>,
        action  |-> "next_question"],
       [pattern |-> << <<"repeat", "result">>, <<"say", "again">>, <<"repeat">> >>,
        action  |-> "repeat_last"],
       [pattern |-> << <<"lifestyle", "tip">>, <<"health", "advice">>, <<"improve", "health">> >>,
        action  |-> "lifestyle_tips"],
       [pattern |-> << <<"stop", "listening">>, <<"pause">>, <<"quiet">> >>,
        action  |-> "stop_listening"] >>

\* Array.prototype.find, as the loop it is: 0 stands for undefined
RECURSIVE findFrom(_, _, _)
findFrom(cmds, i, transcript) ==
    IF i > Len(cmds) THEN 0
    ELSE IF test(cmds[i].pattern, transcript) THEN i
    ELSE findFrom(cmds, i + 1, transcript)

\* a plausible slip: the scan keeps the last matching rule
RECURSIVE findLastFrom(_, _, _)
findLastFrom(cmds, i, transcript) ==
    IF i < 1 THEN 0
    ELSE IF test(cmds[i].pattern, transcript) THEN i
    ELSE findLastFrom(cmds, i - 1, transcript)

LastCommandIndex ==
    [t \in Utterances |-> findLastFrom(voiceCommands, Len(voiceCommands), t)]

findLastMatch(transcript) == LastCommandIndex[transcript]

\* the table is static: the scan of each text is computed once
CommandIndex == [t \in Utterances |-> findFrom(voiceCommands, 1, t)]

\* voiceCommands.find(cmd => cmd.pattern.test(transcript))
matchedCommand(transcript) == CommandIndex[transcript]

(***************************************************************************)
(* State of both screens.                                                  *)
(***************************************************************************)
VARIABLES
    \* ---- EnhancedVoiceUI (part_000) ----
    window,            \* what the browser offers: [SpeechRecognition, speechSynthesis]
    mounted,           \* the mount effect has run
    isListening, isSpeaking, currentTranscript, voiceMessages, healthAlerts,
    riskData, voiceSupported, isProcessing,       \* useState, lines 47-54
    recognition,       \* recognitionRef and the browser's session behind it
    synthRef,          \* synthRef.current is set
    synthQueue,        \* utterances handed to speechSynthesis and not yet finished
    fetchLatest,       \* the request of fetchLatestRiskData
    routerStack,       \* router.push
    log,               \* history: one entry per processVoiceCommand call
    \* ---- VoiceAssistant (voice-assistant.tsx) ----
    coach,
    \* ---- the voice NLP service behind POST /api/voice/process-command ----
    nlp,
    \* ---- RiskMonitor (risk-monitor.tsx) ----
    monitor,
    \* ---- the assessment wizard (assessment.tsx) ----
    form,
    \* ---- AdvancedVoiceFeatures (advanced-voice-features.tsx) ----
    advanced

enhancedVars ==
    <<window, mounted, isListening, isSpeaking, currentTranscript, voiceMessages,
      healthAlerts, riskData, voiceSupported, isProcessing, recognition, synthRef,
      synthQueue, fetchLatest, routerStack, log>>

coachVars == <<coach>>

vars == <<enhancedVars, coachVars, nlp, monitor, form, advanced>>

\* the variables an action of one screen leaves alone
notEnhanced == <<coachVars, nlp, monitor, form, advanced>>
notCoach == <<enhancedVars, nlp, monitor, form, advanced>>
notNlp == <<enhancedVars, coachVars, monitor, form, advanced>>
notMonitor == <<enhancedVars, coachVars, nlp, form, advanced>>
notForm == <<enhancedVars, coachVars, nlp, monitor, advanced>>
notAdvanced == <<enhancedVars, coachVars, nlp, monitor, form>>

(***************************************************************************)
(* Optional values: null is the empty sequence.                            *)
(***************************************************************************)
Null == <<>>
Some(x) == <<x>>

(***************************************************************************)
(* The backend's answer to GET /api/recent-predictions?limit=1: a list of  *)
(* at most one prediction; cardiovascular_risks maps a condition to        *)
(* probability (here in thousandths) and risk_level, and may lack entries. *)
(***************************************************************************)
RisksMedium ==
    [overall_cardiovascular |-> [probability |-> 400, risk_level |-> "Medium"],
     heart_attack           |-> [probability |-> 440, risk_level |-> "Medium"],
     stroke                 |-> [probability |-> 120, risk_level |-> "Low"],
     heart_failure          |-> [probability |-> 300, risk_level |-> "Medium"],
     arrhythmia             |-> [probability |-> 50,  risk_level |-> "Low"]]

RisksWithoutHeartAttack ==
    [overall_cardiovascular |-> [probability |-> 200, risk_level |-> "Low"],
     stroke                 |-> [probability |-> 120, risk_level |-> "Low"]]

\* what the model lets the backend answer
RecentPredictions == { <<>>, <<RisksMedium>> }
CoachRecentPredictions == { <<>>, <<RisksMedium>>, <<RisksWithoutHeartAttack>> }

\* risks?.[k]?.probability || 0
ProbabilityOrZero(risks, k) ==
    IF k \in DOMAIN risks THEN risks[k].probability ELSE 0

\* Math.round(p * 100), p in thousandths
RoundPercent(p) == (p + 5) \div 10

\* (p * 100).toFixed(1), p in thousandths
toFixed1(p) == ToString(p \div 10) \o "." \o ToString(p % 10)

\* the object fetchLatestRiskData stores (last_updated, a timestamp, left out)
RiskDataOf(risks) ==
    [overall_score |-> RoundPercent(ProbabilityOrZero(risks, "overall_cardiovascular")),
     heart_attack  |-> RoundPercent(ProbabilityOrZero(risks, "heart_attack")),
     stroke        |-> RoundPercent(ProbabilityOrZero(risks, "stroke")),
     heart_failure |-> RoundPercent(ProbabilityOrZero(risks, "heart_failure")),
     arrhythmia    |-> RoundPercent(ProbabilityOrZero(risks, "arrhythmia")),
     trend         |-> "stable"]

(***************************************************************************)
(* EnhancedVoiceUI: the texts.                                             *)
(***************************************************************************)
WelcomeText ==
    "Hello! I'm your AI Health Coach. You can ask me about your heart health, request explanations, or start a new assessment. What would you like to know?"
StartAssessmentText == "Starting a new heart health assessment for you."
MedicationAlertText == "Reminder: Take your prescribed heart medication"
MedicationText ==
    "I've added a medication reminder for you. Don't forget to take your prescribed heart medication."
EmergencyText ==
    "If you're experiencing a medical emergency, please call 911 immediately. For non-urgent medical questions, contact your healthcare provider."
EmergencyAlertText == "Emergency resources available if needed"
NextQuestionText ==
    "Let's continue. What else would you like to know about your heart health?"
StopListeningText == "Voice assistant paused. Tap the microphone to resume."
GenericText ==
    "I'm here to help with your heart health questions. You can ask me about your risk levels, request health tips, start a new assessment, or ask for explanations of your results. What would you like to know?"
NoRiskDataText ==
    "I don't have your current risk data available. Would you like to start a new assessment to get updated risk calculations?"
ExplanationText ==
    "Your cardiovascular risk assessment uses advanced machine learning to analyze over 20 health factors. The system looks at things like your age, blood pressure, cholesterol levels, family history, lifestyle habits, and more. Each factor is weighted based on medical research to give you personalized risk predictions. The percentages tell you your statistical likelihood of developing each condition. Would you like me to focus on any specific risk factor?"
NothingToRepeatText ==
    "I don't have a previous result to repeat. Would you like me to show your current risk levels?"
RepeatPrefix == "I'll repeat that: "
ProcessingErrorText ==
    "I apologize, but I encountered an error processing your request. Please try again."
NoSpeechText == "I didn't hear anything. Please try speaking again."
TroubleText == "Sorry, I had trouble understanding. Please try again."

tips ==
    << "Regular exercise for at least 30 minutes, 5 days a week can significantly reduce your cardiovascular risk.",
       "A Mediterranean-style diet rich in fruits, vegetables, whole grains, and healthy fats is excellent for heart health.",
       "Managing stress through meditation, yoga, or other relaxation techniques can lower your blood pressure.",
       "Getting 7-9 hours of quality sleep each night is crucial for heart health.",
       "If you smoke, quitting is the single most important thing you can do for your cardiovascular health." >>

TipText(r) ==
    "Here's a personalized health tip: " \o tips[r] \o " Would you like more specific advice for your situation?"

RiskReportText(rd) ==
    "Your overall cardiovascular risk score is " \o ToString(rd.overall_score)
    \o "%. Breaking this down: Heart attack risk is " \o ToString(rd.heart_attack)
    \o "%, stroke risk is " \o ToString(rd.stroke)
    \o "%, heart failure risk is " \o ToString(rd.heart_failure)
    \o "%, and arrhythmia risk is " \o ToString(rd.arrhythmia)
    \o "%. Your risk trend is currently " \o rd.trend
    \o ". Would you like me to explain what these numbers mean?"

\* riskData?.heart_attack || 'moderate': null and 0 are both falsy
OrDefault(rd, field, default) ==
    IF rd = Null \/ rd[1][field] = 0 THEN default ELSE ToString(rd[1][field])

HeartAttackText(rd) ==
    "Based on your latest assessment, your heart attack risk is "
    \o OrDefault(rd, "heart_attack", "moderate")
    \o " level. This is calculated using multiple factors including your age, lifestyle, and medical history. Would you like me to explain which factors are contributing most to this risk?"

StrokeText(rd) ==
    "Your stroke risk is currently " \o OrDefault(rd, "stroke", "low")
    \o " level. Key factors that influence stroke risk include blood pressure, age, and lifestyle habits. Keep up the good work managing your cardiovascular health!"

(***************************************************************************)
(* EnhancedVoiceUI: the functions of the component.  S is the part of the  *)
(* state the handlers write; c is what the handler's closure reads         *)
(* (riskData, voiceMessages, isListening of the render that created it).   *)
(* S.said and S.cancelled are what the running handler has handed to       *)
(* speechSynthesis.speak and what its cancel() calls have thrown away.     *)
(***************************************************************************)
StateOf ==
    [voiceMessages |-> voiceMessages, healthAlerts |-> healthAlerts,
     synthRef |-> synthRef, synthQueue |-> synthQueue,
     isSpeaking |-> isSpeaking, recognition |-> recognition,
     routerStack |-> routerStack, said |-> <<>>, cancelled |-> {}]

\* the render in which a handler was created
CurrentClosure ==
    [riskData |-> riskData, voiceMessages |-> voiceMessages, isListening |-> isListening]

\* the first render: initializeVoiceSystem runs once, from the mount effect, and
\* recognition.onresult keeps the processVoiceCommand of that render
MountClosure ==
    [riskData |-> Null, voiceMessages |-> <<>>, isListening |-> FALSE]

\* a closure that follows the state, as if the handlers were re-created
FreshClosure == CurrentClosure

\* the closure recognition.onresult calls processVoiceCommand with
OnResultClosure == MountClosure

TextsOf(queue) == { queue[i].text : i \in 1..Len(queue) }

\* speechSynthesis.cancel(): every queued utterance is dropped, the one being
\* spoken stops
synthCancel(S) ==
    [S EXCEPT !.cancelled = @ \cup TextsOf(S.synthQueue),
              !.synthQueue = <<>>,
              !.isSpeaking = FALSE]

speak(S, text, priority) ==
    IF S.synthRef
    THEN LET S1 == IF priority = "high" THEN synthCancel(S) ELSE S
         IN  [S1 EXCEPT !.synthQueue = Append(@, [text |-> text, priority |-> priority]),
                        !.said = Append(@, [text |-> text, priority |-> priority])]
    ELSE S

\* id, timestamp and the recogniser's confidence are left out of a message
addVoiceMessage(S, role, text) ==
    LET S1 == [S EXCEPT !.voiceMessages = Append(@, [role |-> role, text |-> text])]
    IN  IF role = "assistant" THEN speak(S1, text, "low") ELSE S1

addHealthAlert(S, text, severity, type) ==
    LET alert == [text |-> text, severity |-> severity, type |-> type]
        S1 == [S EXCEPT !.healthAlerts =
                   <<alert>> \o SubSeq(@, 1, IF Len(@) < 4 THEN Len(@) ELSE 4)]
    IN  IF severity = "high" THEN speak(S1, "Important alert: " \o text, "high") ELSE S1

stopListening(S, c) ==
    IF S.recognition # "none" /\ c.isListening
    THEN \* recognition.stop(): a running session is asked to end
         [S EXCEPT !.recognition =
             IF @ \in {"starting", "listening"} THEN "stopping" ELSE @]
    ELSE S

showCurrentRisk(S, c) ==
    IF c.riskData # Null
    THEN addVoiceMessage(S, "assistant", RiskReportText(c.riskData[1]))
    ELSE addVoiceMessage(S, "assistant", NoRiskDataText)

explainLatestResults(S) == addVoiceMessage(S, "assistant", ExplanationText)

IsAssistant(m) == m.role = "assistant"

repeatLastResult(S, c) ==
    LET assistantMessages == SelectSeq(c.voiceMessages, IsAssistant)
    IN  IF assistantMessages # <<>>
        THEN addVoiceMessage(S, "assistant",
                 RepeatPrefix \o assistantMessages[Len(assistantMessages)].text)
        ELSE addVoiceMessage(S, "assistant", NothingToRepeatText)

\* r is the index Math.floor(Math.random() * tips.length) + 1
provideLifestyleTips(S, r) == addVoiceMessage(S, "assistant", TipText(r))

\* a fallback without keywords: always the clarifying question
clarifyOnly(S, c, query, r) == addVoiceMessage(S, "assistant", GenericText)

processNaturalLanguageQuery(S, c, query, r) ==
    LET lowerQuery == toLowerCase(query) IN
    IF includes(lowerQuery, "heart attack")
    THEN addVoiceMessage(S, "assistant", HeartAttackText(c.riskData))
    ELSE IF includes(lowerQuery, "stroke")
    THEN addVoiceMessage(S, "assistant", StrokeText(c.riskData))
    ELSE IF includes(lowerQuery, "improve") \/ includes(lowerQuery, "better")
    THEN provideLifestyleTips(S, r)
    ELSE addVoiceMessage(S, "assistant", GenericText)

\* the case labels of the switch
handledActions ==
    { "show_risk", "start_assessment", "explain_results", "medication_reminder",
      "emergency_help", "next_question", "repeat_last", "lifestyle_tips",
      "stop_listening" }

executeVoiceAction(S, c, action, transcript, r) ==
    CASE action = "show_risk" -> showCurrentRisk(S, c)
      [] action = "start_assessment" ->
           [addVoiceMessage(S, "assistant", StartAssessmentText)
               EXCEPT !.routerStack = Append(@, "/assessment")]
      [] action = "explain_results" -> explainLatestResults(S)
      [] action = "medication_reminder" ->
           addVoiceMessage(
               addHealthAlert(S, MedicationAlertText, "medium", "medication"),
               "assistant", MedicationText)
      [] action = "emergency_help" ->
           addHealthAlert(
               addVoiceMessage(S, "assistant", EmergencyText),
               EmergencyAlertText, "high", "emergency")
      [] action = "next_question" -> addVoiceMessage(S, "assistant", NextQuestionText)
      [] action = "repeat_last" -> repeatLastResult(S, c)
      [] action = "lifestyle_tips" -> provideLifestyleTips(S, r)
      [] action = "stop_listening" ->
           addVoiceMessage(stopListening(S, c), "assistant", StopListeningText)
      [] OTHER -> processNaturalLanguageQuery(S, c, transcript, r)

\* the action label of the matched command; "unknown" when none matches
ActionOf(transcript) ==
    LET k == matchedCommand(transcript)
    IN  IF k = 0 THEN "unknown" ELSE voiceCommands[k].action

\* nothing in the handlers throws, so the catch branch (line 239) adds nothing
processVoiceCommand(S, c, transcript, r) ==
    LET k == matchedCommand(transcript)
    IN  IF k # 0
        THEN executeVoiceAction(S, c, voiceCommands[k].action, transcript, r)
        ELSE processNaturalLanguageQuery(S, c, transcript, r)

(***************************************************************************)
(* EnhancedVoiceUI: the steps.                                             *)
(***************************************************************************)
Commit(S) ==
    /\ voiceMessages' = S.voiceMessages
    /\ healthAlerts' = S.healthAlerts
    /\ synthRef' = S.synthRef
    /\ synthQueue' = S.synthQueue
    /\ isSpeaking' = S.isSpeaking
    /\ recognition' = S.recognition
    /\ routerStack' = S.routerStack

\* the texts of the assistant messages S2 holds beyond those of S1
Replies(S1, S2) ==
    LET added == SubSeq(S2.voiceMessages, Len(S1.voiceMessages) + 1, Len(S2.voiceMessages))
        assistant == SelectSeq(added, IsAssistant)
    IN  [i \in 1..Len(assistant) |-> assistant[i].text]

LogEntry(transcript, via, S1, S2) ==
    [transcript |-> transcript, via |-> via,
     riskData   |-> riskData,                      \* the context the call is made in
     before     |-> Len(S1.voiceMessages),         \* the conversation it found
     action     |-> ActionOf(transcript),
     replies    |-> Replies(S1, S2),
     alerts     |-> SubSeq(S2.healthAlerts, 1, Len(S2.healthAlerts) - Len(S1.healthAlerts)),
     said       |-> S2.said,                       \* the utterances of this call
     dropped    |-> S2.cancelled]                  \* and the texts it cancelled

EnhancedInit ==
    /\ window \in [SpeechRecognition : BOOLEAN, speechSynthesis : BOOLEAN]
    /\ mounted = FALSE
    /\ isListening = FALSE
    /\ isSpeaking = FALSE
    /\ currentTranscript = ""
    /\ voiceMessages = <<>>
    /\ healthAlerts = <<>>
    /\ riskData = Null
    /\ voiceSupported = FALSE
    /\ isProcessing = FALSE
    /\ recognition = "none"
    /\ synthRef = FALSE
    /\ synthQueue = <<>>
    /\ fetchLatest = [status |-> "idle", data |-> <<>>]
    /\ routerStack = <<>>
    /\ log = <<>>

\* useEffect(..., []): initializeVoiceSystem, fetchLatestRiskData,
\* initializeHealthAlerts, the welcome message
Mount ==
    /\ ~mounted
    /\ mounted' = TRUE
    /\ voiceSupported' = window.SpeechRecognition
    /\ fetchLatest' = [status |-> "pending", data |-> <<>>]
    /\ LET S0 == [StateOf EXCEPT
                     !.recognition = IF window.SpeechRecognition THEN "idle" ELSE "none",
                     !.synthRef = window.speechSynthesis]
           S1 == addHealthAlert(S0, "Daily medication reminder set", "low", "reminder")
           S2 == addHealthAlert(S1, "Regular check-up scheduled for next week", "low", "reminder")
       IN  Commit(addVoiceMessage(S2, "assistant", WelcomeText))
    /\ UNCHANGED <<window, isListening, currentTranscript, riskData, isProcessing,
                   log, notEnhanced>>

\* fetchLatestRiskData: the response arrives
FetchLatestRiskDataResolve(data) ==
    /\ fetchLatest.status = "pending"
    /\ fetchLatest' = [status |-> "done", data |-> data]
    /\ riskData' = IF Len(data) > 0 THEN Some(RiskDataOf(data[1])) ELSE riskData
    /\ UNCHANGED <<window, mounted, isListening, isSpeaking, currentTranscript,
                   voiceMessages, healthAlerts, voiceSupported, isProcessing,
                   recognition, synthRef, synthQueue, routerStack,
                   log, notEnhanced>>

\* fetchLatestRiskData: the request fails, which is only logged
FetchLatestRiskDataReject ==
    /\ fetchLatest.status = "pending"
    /\ fetchLatest' = [status |-> "failed", data |-> <<>>]
    /\ UNCHANGED <<window, mounted, isListening, isSpeaking, currentTranscript,
                   voiceMessages, healthAlerts, riskData, voiceSupported, isProcessing,
                   recognition, synthRef, synthQueue, routerStack,
                   log, notEnhanced>>

\* the microphone button: onPress = isListening ? stopListening : startListening,
\* disabled = !voiceSupported || isSpeaking || isProcessing
MicPress ==
    /\ mounted /\ voiceSupported /\ ~isSpeaking /\ ~isProcessing
    /\ IF isListening
       THEN Commit(stopListening(StateOf, CurrentClosure))
       ELSE \* startListening: recognition.start() throws on a session that has
            \* not ended; the catch shows an alert and changes nothing else
            IF recognition = "idle"
            THEN Commit([StateOf EXCEPT !.recognition = "starting"])
            ELSE Commit(StateOf)
    /\ UNCHANGED <<window, mounted, isListening, currentTranscript, riskData,
                   voiceSupported, isProcessing, fetchLatest, log, notEnhanced>>

RecognitionOnStart ==
    /\ recognition = "starting"
    /\ recognition' = "listening"
    /\ isListening' = TRUE
    /\ currentTranscript' = ""
    /\ UNCHANGED <<window, mounted, isSpeaking, voiceMessages, healthAlerts, riskData,
                   voiceSupported, isProcessing, synthRef, synthQueue,
                   fetchLatest, routerStack, log, notEnhanced>>

\* recognition.onresult with a final transcript (interim results only touch
\* currentTranscript and are not generated); a session asked to stop may still
\* deliver the result of the audio it has
RecognitionOnResult(finalTranscript, r) ==
    /\ recognition \in {"listening", "stopping"}
    /\ finalTranscript # ""
    /\ Len(voiceMessages) + 2 <= MaxMessages
    /\ currentTranscript' = finalTranscript
    /\ LET S1 == addVoiceMessage(StateOf, "user", finalTranscript)
           S2 == processVoiceCommand(S1, OnResultClosure, finalTranscript, r)
       IN  /\ Commit(S2)
           /\ log' = Append(log, LogEntry(finalTranscript, "speech", S1, S2))
    /\ isProcessing' = FALSE      \* set at line 227, cleared at line 243
    /\ UNCHANGED <<window, mounted, isListening, riskData, voiceSupported,
                   fetchLatest, notEnhanced>>

RecognitionOnError(error) ==
    /\ recognition \in {"starting", "listening", "stopping"}
    /\ Len(voiceMessages) < MaxMessages
    /\ isListening' = FALSE
    /\ Commit(addVoiceMessage([StateOf EXCEPT !.recognition = "ending"], "assistant",
                              IF error = "no-speech" THEN NoSpeechText ELSE TroubleText))
    /\ UNCHANGED <<window, mounted, currentTranscript, riskData, voiceSupported,
                   isProcessing, fetchLatest, log, notEnhanced>>

\* the session is over: after stop(), after an error, or by itself
RecognitionOnEnd ==
    /\ recognition \in {"listening", "stopping", "ending"}
    /\ recognition' = "idle"
    /\ isListening' = FALSE
    /\ currentTranscript' = ""
    /\ UNCHANGED <<window, mounted, isSpeaking, voiceMessages, healthAlerts, riskData,
                   voiceSupported, isProcessing, synthRef, synthQueue,
                   fetchLatest, routerStack, log, notEnhanced>>

\* the quick-action buttons "Show Risk" and "Get Tips" (lines 532-544)
QuickCommand(phrase, r) ==
    /\ mounted
    /\ Len(voiceMessages) < MaxMessages
    /\ LET S2 == processVoiceCommand(StateOf, CurrentClosure, phrase, r)
       IN  /\ Commit(S2)
           /\ log' = Append(log, LogEntry(phrase, "tap", StateOf, S2))
    /\ isProcessing' = FALSE
    /\ UNCHANGED <<window, mounted, isListening, currentTranscript, riskData,
                   voiceSupported, fetchLatest, notEnhanced>>

\* utterance.onstart
UtteranceStart ==
    /\ synthQueue # <<>> /\ ~isSpeaking
    /\ isSpeaking' = TRUE
    /\ UNCHANGED <<window, mounted, isListening, currentTranscript, voiceMessages,
                   healthAlerts, riskData, voiceSupported, isProcessing, recognition,
                   synthRef, synthQueue, fetchLatest, routerStack,
                   log, notEnhanced>>

\* utterance.onend / onerror
UtteranceEnd ==
    /\ synthQueue # <<>> /\ isSpeaking
    /\ synthQueue' = Tail(synthQueue)
    /\ isSpeaking' = FALSE
    /\ UNCHANGED <<window, mounted, isListening, currentTranscript, voiceMessages,
                   healthAlerts, riskData, voiceSupported, isProcessing, recognition,
                   synthRef, fetchLatest, routerStack, log,
                   notEnhanced>>

(***************************************************************************)
(* VoiceAssistant (the AI Health Coach): texts.                            *)
(***************************************************************************)
\* (the emoji the welcome text starts with is left out)
CoachWelcomeText ==
    "Hi! I'm your AI Health Coach. Try saying \"What is my heart attack risk?\" or \"Give me health tips\""
CoachHelloText ==
    "Hello! I'm your AI Health Coach. I can help explain your cardiovascular risks, provide personalized health tips, and guide you through assessments. What would you like to know?"
CoachHeartAttackText ==
    "Based on your latest assessment, your heart attack risk is currently at a medium level. This is primarily influenced by factors like cholesterol levels and lifestyle habits. Would you like specific recommendations to reduce this risk?"
CoachStrokeText ==
    "Your stroke risk appears to be in the low category, which is great news! Your blood pressure management and overall cardiovascular health are contributing positively. Keep up the good work with your current lifestyle."
CoachTipsText ==
    "Here are your top 3 personalized recommendations: First, consider increasing your weekly exercise to at least 150 minutes. Second, focus on reducing sodium intake to help with blood pressure. Third, ensure you're getting 7-8 hours of quality sleep nightly."
CoachExplainText ==
    "Your cardiovascular risk assessment uses machine learning to analyze 22 different health factors. The system looks at things like your age, blood pressure, cholesterol, lifestyle habits, and family history to calculate your risk for different heart conditions."
CoachImproveText ==
    "Great question! Based on your profile, the most impactful changes would be: quitting smoking if applicable, which could reduce your risk by up to 15%, increasing physical activity could lower it by 8%, and improving your diet could provide a 6% reduction."
CoachEmergencyText ==
    "If you're experiencing chest pain, shortness of breath, or other concerning symptoms, please seek immediate medical attention or call emergency services. For non-urgent questions, I recommend scheduling an appointment with your healthcare provider."
CoachHelpText ==
    "I can help you with: checking your heart risks, explaining assessment results, providing health tips, starting new assessments, or navigating the app. Just speak naturally - for example, say 'What's my heart attack risk?' or 'Give me health advice'."
CoachDefaultText ==
    "I understand you're asking about your heart health. Could you be more specific? You can ask about your risk levels, request health tips, or say 'help' to see what I can do for you."
CoachLatestResultsText ==
    "Your latest assessment shows a comprehensive view of your cardiovascular health. The AI analyzed your lifestyle factors, medical history, and vital signs to calculate risks for heart attack, stroke, heart failure, and arrhythmia. Would you like me to explain any specific risk category?"

coachTips ==
    << "Aim for 30 minutes of moderate exercise 5 days a week",
       "Limit sodium to less than 2,300mg daily",
       "Include omega-3 rich fish twice weekly",
       "Practice stress-reduction techniques daily",
       "Monitor your blood pressure regularly" >>

CoachTipText(r) ==
    "Here's a personalized tip: " \o coachTips[r]
    \o ". Would you like more specific advice for your risk profile?"

\* String.prototype.replace with a string pattern: the first occurrence only
replace(s, old, new) ==
    IF includes(s, old)
    THEN LET i == CHOOSE k \in 0..(Len(s) - Len(old)) :
                     /\ SubSeq(s, k + 1, k + Len(old)) = old
                     /\ \A j \in 0..(k - 1) : SubSeq(s, j + 1, j + Len(old)) # old
         IN  SubSeq(s, 1, i) \o new \o SubSeq(s, i + Len(old) + 1, Len(s))
    ELSE s

LatestRiskText(riskType, risk) ==
    "Your " \o replace(riskType, "_", " ") \o " risk is currently "
    \o toLowerCase(risk.risk_level) \o " at " \o toFixed1(risk.probability) \o "%."

(***************************************************************************)
(* VoiceAssistant: the command list, in source order.  "does" names the    *)
(* action of the command.                                                  *)
(***************************************************************************)
coachCommands ==
    << [command |-> "start assessment", does |-> "push /assessment",
        description |-> "Begin a new heart health assessment"],
       [command |-> "show risk monitor", does |-> "push /risk-monitor",
        description |-> "View real-time risk monitoring"],
       [command |-> "view history", does |-> "push /history",
        description |-> "Check your assessment history"],
       [command |-> "go home", does |-> "push /",
        description |-> "Return to home dashboard"],
       [command |-> "what is my heart attack risk", does |-> "getLatestRisk",
        description |-> "Get your current heart attack risk level"],
       [command |-> "explain my results", does |-> "explainLatestResults",
        description |-> "Get AI explanation of your latest assessment"],
       [command |-> "give me health tips", does |-> "getPersonalizedTips",
        description |-> "Receive personalized health recommendations"] >>

\* what the recogniser may hand to onresult
CoachHeard ==
    { "What is my heart attack risk", " Explain my results ", "give me health tips",
      "I need urgent help", "help me, this is an emergency", "asdfasdf", "go" }

\* the texts processVoiceCommand and handleAIQuery can be called with
CoachQueries ==
    { trim(toLowerCase(t)) : t \in CoachHeard }
    \cup { coachCommands[i].command : i \in 1..Len(coachCommands) }

RECURSIVE coachFindFrom(_, _)
coachFindFrom(i, command) ==
    IF i > Len(coachCommands) THEN 0
    ELSE IF \/ includes(command, coachCommands[i].command)
            \/ includes(coachCommands[i].command, command)
         THEN i
         ELSE coachFindFrom(i + 1, command)

CoachCommandIndex == [q \in CoachQueries |-> coachFindFrom(1, q)]

\* voiceCommands.find(cmd => command.includes(cmd.command) || cmd.command.includes(command))
coachMatchedCommand(command) == CoachCommandIndex[command]

\* getAIHealthCoachResponse; action "" stands for no action
AIHealthCoachResponse ==
    [query \in CoachQueries |->
        LET lowerQuery == toLowerCase(query) IN
        IF includes(lowerQuery, "heart attack") \/ includes(lowerQuery, "heart risk")
        THEN [message |-> CoachHeartAttackText, action |-> "show_heart_attack_details"]
        ELSE IF includes(lowerQuery, "stroke") \/ includes(lowerQuery, "brain")
        THEN [message |-> CoachStrokeText, action |-> "show_stroke_details"]
        ELSE IF \/ includes(lowerQuery, "tips") \/ includes(lowerQuery, "advice")
                \/ includes(lowerQuery, "help me")
        THEN [message |-> CoachTipsText, action |-> "show_personalized_tips"]
        ELSE IF \/ includes(lowerQuery, "explain") \/ includes(lowerQuery, "what does")
                \/ includes(lowerQuery, "mean")
        THEN [message |-> CoachExplainText, action |-> "show_explanation"]
        ELSE IF \/ includes(lowerQuery, "improve") \/ includes(lowerQuery, "better")
                \/ includes(lowerQuery, "reduce risk")
        THEN [message |-> CoachImproveText, action |-> "show_improvement_plan"]
        ELSE IF \/ includes(lowerQuery, "emergency") \/ includes(lowerQuery, "urgent")
                \/ includes(lowerQuery, "call doctor")
        THEN [message |-> CoachEmergencyText, action |-> "show_emergency_info"]
        ELSE IF includes(lowerQuery, "help") \/ includes(lowerQuery, "commands")
        THEN [message |-> CoachHelpText, action |-> "show_help"]
        ELSE [message |-> CoachDefaultText, action |-> ""]]

getAIHealthCoachResponse(query) == AIHealthCoachResponse[query]

(***************************************************************************)
(* VoiceAssistant: the functions of the component, on the record C of its  *)
(* state.  C.log is history: one entry per command, with the replies it    *)
(* got.                                                                    *)
(***************************************************************************)
\* speak always cancels what speechSynthesis still holds
coachSpeak(C, text) ==
    IF C.synthRef
    THEN [C EXCEPT !.synthQueue = <<text>>, !.isSpeaking = FALSE]
    ELSE C

addToConversation(C, type, message) ==
    [C EXCEPT !.conversationHistory = Append(@, [type |-> type, message |-> message])]

\* an "ai" message and its utterance, counted as a reply to command number n;
\* dropped: the earlier replies to the command whose utterance this one cancels
coachReply(C, n, message) ==
    LET C1 == coachSpeak(addToConversation(C, "ai", message), message)
        waiting == { C.synthQueue[i] : i \in 1..Len(C.synthQueue) }
        mine == { C.log[n].replies[i] : i \in 1..Len(C.log[n].replies) }
    IN  [C1 EXCEPT !.log[n].replies = Append(@, message),
                   !.log[n].dropped = IF C.synthRef THEN @ \cup (waiting \cap mine) ELSE @]

executeAIAction(C, action) ==
    CASE action = "show_heart_attack_details" ->
            [C EXCEPT !.routerStack = Append(@, "/risk-monitor")]
      [] action = "show_emergency_info" ->
            [C EXCEPT !.alertDialog = "Emergency Information"]
      [] OTHER -> C

handleAIQuery(C, n, query) ==
    LET response == getAIHealthCoachResponse(query)
        C1 == [coachReply(C, n, response.message) EXCEPT !.aiResponse = Some(response)]
    IN  IF response.action # ""
        THEN [C1 EXCEPT !.timers = Append(@, response.action)]   \* setTimeout(..., 2000)
        ELSE C1

\* the action of a matched command; getLatestRisk only starts its request here
coachCommandAction(C, n, cmd, r) ==
    CASE cmd.does = "push /assessment" -> [C EXCEPT !.routerStack = Append(@, "/assessment")]
      [] cmd.does = "push /risk-monitor" -> [C EXCEPT !.routerStack = Append(@, "/risk-monitor")]
      [] cmd.does = "push /history" -> [C EXCEPT !.routerStack = Append(@, "/history")]
      [] cmd.does = "push /" -> [C EXCEPT !.routerStack = Append(@, "/")]
      [] cmd.does = "getLatestRisk" ->
            [C EXCEPT !.fetches = Append(@, [riskType |-> "heart_attack", entry |-> n]),
                      !.log[n].fetch = "pending"]
      [] cmd.does = "explainLatestResults" -> coachReply(C, n, CoachLatestResultsText)
      [] cmd.does = "getPersonalizedTips" -> coachReply(C, n, CoachTipText(r))

coachProcessVoiceCommand(C, n, command, r) ==
    LET k == coachMatchedCommand(command)
    IN  IF k # 0
        THEN coachReply(coachCommandAction(C, n, coachCommands[k], r), n,
                        "Executing: " \o coachCommands[k].description)
        ELSE handleAIQuery(C, n, command)

\* a new log entry for a command; its number is the length of the log
coachBegin(C, command, via) ==
    [C EXCEPT !.log = Append(@, [command |-> command, via |-> via,
                                 matched |-> coachMatchedCommand(command),
                                 replies |-> <<>>, dropped |-> {},
                                 fetch |-> "none"])]

(***************************************************************************)
(* VoiceAssistant: the steps.                                              *)
(***************************************************************************)
CoachUnmounted(w) ==
    [window |-> w, mounted |-> FALSE, isListening |-> FALSE, isSpeaking |-> FALSE,
     transcript |-> "", aiResponse |-> Null, conversationHistory |-> <<>>,
     voiceSupported |-> FALSE, recognition |-> "none", synthRef |-> FALSE,
     synthQueue |-> <<>>, routerStack |-> <<>>, alertDialog |-> "",
     fetches |-> <<>>, timers |-> <<>>, log |-> <<>>]

NoWindow == [SpeechRecognition |-> FALSE, speechSynthesis |-> FALSE]

CoachInit ==
    \E w \in [SpeechRecognition : BOOLEAN, speechSynthesis : BOOLEAN] :
        coach = CoachUnmounted(w)

\* useEffect(..., []): initializeVoiceRecognition, initializeTextToSpeech, welcome
CoachMount ==
    /\ ~coach.mounted
    /\ coach' = addToConversation(
                    [coach EXCEPT !.mounted = TRUE,
                                  !.voiceSupported = coach.window.SpeechRecognition,
                                  !.recognition = IF coach.window.SpeechRecognition
                                                  THEN "idle" ELSE "none",
                                  !.alertDialog = IF coach.window.SpeechRecognition
                                                  THEN @ ELSE "Voice Not Supported",
                                  !.synthRef = coach.window.speechSynthesis],
                    "ai", CoachWelcomeText)
    /\ UNCHANGED notCoach

\* the voice button: onPress = isListening ? stopListening : startListening,
\* disabled = !voiceSupported || isSpeaking
CoachMicPress ==
    /\ coach.mounted /\ coach.voiceSupported /\ ~coach.isSpeaking
    /\ coach' =
         IF coach.isListening
         THEN \* stopListening: recognition.stop(); setIsListening(false)
              [coach EXCEPT !.recognition =
                                IF @ \in {"starting", "listening"} THEN "stopping" ELSE @,
                            !.isListening = FALSE]
         ELSE \* startListening: start() throws on a session that has not ended;
              \* the catch only logs
              [coach EXCEPT !.recognition = IF @ = "idle" THEN "starting" ELSE @]
    /\ UNCHANGED notCoach

CoachRecognitionOnStart ==
    /\ coach.recognition = "starting"
    /\ coach' = [coach EXCEPT !.recognition = "listening", !.isListening = TRUE,
                              !.transcript = ""]
    /\ UNCHANGED notCoach

\* recognition.onresult; continuous = false, so the session ends after the result
CoachRecognitionOnResult(heard, r) ==
    /\ coach.recognition \in {"listening", "stopping"}
    /\ Len(coach.conversationHistory) < MaxMessages
    /\ LET result == trim(toLowerCase(heard))
           C1 == addToConversation([coach EXCEPT !.transcript = result,
                                                 !.recognition = "ending"],
                                   "user", result)
           C2 == coachBegin(C1, result, "speech")
       IN  coach' = coachProcessVoiceCommand(C2, Len(C2.log), result, r)
    /\ UNCHANGED notCoach

CoachRecognitionOnError ==
    /\ coach.recognition \in {"starting", "listening", "stopping"}
    /\ coach' = [coach EXCEPT !.recognition = "ending", !.isListening = FALSE,
                              !.alertDialog = "Voice Error"]
    /\ UNCHANGED notCoach

CoachRecognitionOnEnd ==
    /\ coach.recognition \in {"listening", "stopping", "ending"}
    /\ coach' = [coach EXCEPT !.recognition = "idle", !.isListening = FALSE]
    /\ UNCHANGED notCoach

\* a tap on one of the listed commands: voiceCommands.slice(0, 5)
CoachTapCommand(i, r) ==
    /\ coach.mounted
    /\ Len(coach.conversationHistory) < MaxMessages
    /\ LET command == coachCommands[i].command
           C2 == coachBegin(addToConversation(coach, "user", command), command, "tap")
       IN  coach' = coachProcessVoiceCommand(C2, Len(C2.log), command, r)
    /\ UNCHANGED notCoach

\* the quick action "Say Hello"
CoachSayHello ==
    /\ coach.mounted
    /\ Len(coach.conversationHistory) < MaxMessages
    /\ coach' = coachSpeak(addToConversation(coach, "ai", CoachHelloText), CoachHelloText)
    /\ UNCHANGED notCoach

\* the quick action "Get Tips": handleAIQuery('give me health tips')
CoachGetTips ==
    /\ coach.mounted
    /\ Len(coach.conversationHistory) < MaxMessages
    /\ LET C2 == coachBegin(coach, "give me health tips", "quick")
       IN  coach' = handleAIQuery(C2, Len(C2.log), "give me health tips")
    /\ UNCHANGED notCoach

\* getLatestRisk: the response of request number i arrives
CoachLatestRiskResolve(i, data) ==
    /\ i \in 1..Len(coach.fetches)
    /\ LET f == coach.fetches[i]
           rest == SubSeq(coach.fetches, 1, i - 1)
                   \o SubSeq(coach.fetches, i + 1, Len(coach.fetches))
           C1 == [coach EXCEPT !.fetches = rest,
                               !.log[f.entry].fetch =
                                   IF Len(data) > 0 /\ f.riskType \in DOMAIN data[1]
                                   THEN "risk" ELSE "no risk"]
       IN  coach' = IF Len(data) > 0 /\ f.riskType \in DOMAIN data[1]
                    THEN coachReply(C1, f.entry, LatestRiskText(f.riskType, data[1][f.riskType]))
                    ELSE C1
    /\ UNCHANGED notCoach

\* getLatestRisk: the request fails, which is only logged
CoachLatestRiskReject(i) ==
    /\ i \in 1..Len(coach.fetches)
    /\ coach' = [coach EXCEPT
                    !.fetches = SubSeq(@, 1, i - 1) \o SubSeq(@, i + 1, Len(@)),
                    !.log[coach.fetches[i].entry].fetch = "failed"]
    /\ UNCHANGED notCoach

\* the 2000 ms timer of handleAIQuery fires
CoachTimerFires ==
    /\ coach.timers # <<>>
    /\ coach' = executeAIAction([coach EXCEPT !.timers = Tail(@)], Head(coach.timers))
    /\ UNCHANGED notCoach

CoachUtteranceStart ==
    /\ coach.synthQueue # <<>> /\ ~coach.isSpeaking
    /\ coach' = [coach EXCEPT !.isSpeaking = TRUE]
    /\ UNCHANGED notCoach

CoachUtteranceEnd ==
    /\ coach.synthQueue # <<>> /\ coach.isSpeaking
    /\ coach' = [coach EXCEPT !.synthQueue = Tail(@), !.isSpeaking = FALSE]
    /\ UNCHANGED notCoach

NextCoach ==
    \/ CoachMount
    \/ CoachMicPress
    \/ CoachRecognitionOnStart
    \/ \E heard \in CoachHeard, r \in 1..Len(coachTips) : CoachRecognitionOnResult(heard, r)
    \/ CoachRecognitionOnError
    \/ CoachRecognitionOnEnd
    \/ \E i \in 1..5, r \in 1..Len(coachTips) : CoachTapCommand(i, r)
    \/ CoachSayHello
    \/ CoachGetTips
    \/ \E i \in 1..MaxMessages, data \in CoachRecentPredictions : CoachLatestRiskResolve(i, data)
    \/ \E i \in 1..MaxMessages : CoachLatestRiskReject(i)
    \/ CoachTimerFires
    \/ CoachUtteranceStart
    \/ CoachUtteranceEnd

(***************************************************************************)
(* The voice NLP service (voice_nlp_service.py, not among the sources):    *)
(* classify, extract, merge, the handlers and the envelope, as the         *)
(* specification and the test report describe them.                        *)
(***************************************************************************)
\* requests in flight plus requests answered, at most
MaxRequests == 2

NlpTexts ==
    { "Show my heart attack risk", "What is my heart attack risk?", "show my risk",
      "what is my stroke risk, is it severe", "my stroke and heart attack risk",
      "I need emergency help",
      "Explain my results", "asdfasdf", "" }

\* the text of a request body: a string, a value of another type, or no key
NlpBodyTexts ==
    { [type |-> "string", value |-> t] : t \in NlpTexts }
    \cup { [type |-> "number", value |-> ""], [type |-> "missing", value |-> ""] }

\* context.risk_data: per condition, probability (in thousandths) and level
NlpRiskData ==
    { {},
      { [condition |-> "heart_attack", probability |-> 440, risk_level |-> "Medium"] },
      { [condition |-> "overall", probability |-> 700, risk_level |-> "High"],
        [condition |-> "stroke", probability |-> 120, risk_level |-> "Low"] } }

\* the ordered rule table: the rules of the application with an intent of the
\* service
nlpRules ==
    SelectSeq(voiceCommands, LAMBDA rule : rule.action # "stop_listening")

RECURSIVE nlpFindFrom(_, _)
nlpFindFrom(i, text) ==
    IF i > Len(nlpRules) THEN 0
    ELSE IF test(nlpRules[i].pattern, text) THEN i
    ELSE nlpFindFrom(i + 1, text)

\* classify: the first rule that matches the lower-cased, trimmed text
NlpIntentOf ==
    [t \in NlpTexts |->
        LET k == nlpFindFrom(1, trim(toLowerCase(t)))
        IN  IF k = 0 THEN "unknown" ELSE nlpRules[k].action]

nlpClassify(text) == NlpIntentOf[text]

conditionKeywords ==
    << <<"heart attack", "heart_attack">>, <<"stroke", "stroke">>,
       <<"heart failure", "heart_failure">>, <<"arrhythmia", "arrhythmia">> >>

severityWords ==
    << <<"mild", "low">>, <<"moderate", "medium">>, <<"severe", "high">> >>

\* the value of the first keyword of the vocabulary the text holds, "" if none
RECURSIVE firstKeyword(_, _, _)
firstKeyword(vocabulary, i, text) ==
    IF i > Len(vocabulary) THEN ""
    ELSE IF includes(text, vocabulary[i][1]) THEN vocabulary[i][2]
    ELSE firstKeyword(vocabulary, i + 1, text)

\* every value of the vocabulary whose keyword the text holds
allKeywords(vocabulary, text) ==
    { vocabulary[i][2] : i \in { j \in 1..Len(vocabulary) : includes(text, vocabulary[j][1]) } }

NlpAllEntitiesOf ==
    [t \in NlpTexts |->
        { <<"condition", c>> : c \in allKeywords(conditionKeywords, toLowerCase(t)) }
        \cup { <<"severity", v>> : v \in allKeywords(severityWords, toLowerCase(t)) }]

\* an extraction that keeps every keyword it finds and fills in nothing
nlpExtractAll(text) == NlpAllEntitiesOf[text]

\* extract: a set of <<key, value>>; the test report shows severity "normal"
\* for a text without a severity word
NlpEntitiesOf ==
    [t \in NlpTexts |->
        LET q == toLowerCase(t)
            condition == firstKeyword(conditionKeywords, 1, q)
            severity == firstKeyword(severityWords, 1, q)
        IN  (IF condition = "" THEN {} ELSE { <<"condition", condition>> })
            \cup { <<"severity", IF severity = "" THEN "normal" ELSE severity>> }]

nlpExtract(text) == NlpEntitiesOf[text]

\* entities.get(key, default)
EntityOr(entities, key, default) ==
    IF \E e \in entities : e[1] = key
    THEN (CHOOSE e \in entities : e[1] = key)[2]
    ELSE default

\* merge: the condition, "overall" by default, and what risk_data holds for it
nlpMerge(entities, risk_data) ==
    LET condition == EntityOr(entities, "condition", "overall")
        found == { e \in risk_data : e.condition = condition }
    IN  [condition |-> condition,
         risk |-> IF found = {} THEN Null ELSE Some(CHOOSE e \in found : TRUE)]

NlpNoDataText ==
    "I don't have risk data for that yet. Please complete an assessment first."
NlpExplainText ==
    "Your risk assessment analyzes your health factors to estimate each risk."
NlpEmergencyText ==
    "If this is a medical emergency, call emergency services immediately."
NlpClarifyText ==
    "I'm not sure I understood. Could you rephrase your question?"
NlpOtherText == "Okay."

NlpRiskText(resolved) ==
    "Your " \o resolved.condition \o " risk is "
    \o ToString(RoundPercent(resolved.risk[1].probability)) \o "% ("
    \o resolved.risk[1].risk_level \o ")."

Reply(text, actions, priority) ==
    [failed |-> FALSE, response_text |-> text, suggested_actions |-> actions,
     priority |-> priority]

\* the handler before its repair: the path of the default condition reads a
\* variable that was never assigned, and the request ends in a server error
nlpHandleShowRiskUnfixed(resolved) ==
    IF resolved.condition = "overall"
    THEN [failed |-> TRUE, response_text |-> "", suggested_actions |-> <<>>,
          priority |-> ""]
    ELSE IF resolved.risk = Null
    THEN Reply(NlpNoDataText, <<"start_assessment">>, "medium")
    ELSE Reply(NlpRiskText(resolved), <<"explain_results">>,
               IF resolved.risk[1].risk_level = "High" THEN "high" ELSE "medium")

nlpHandleShowRisk(resolved) ==
    IF resolved.risk = Null
    THEN Reply(NlpNoDataText, <<"start_assessment">>, "medium")
    ELSE Reply(NlpRiskText(resolved), <<"explain_results">>,
               IF resolved.risk[1].risk_level = "High" THEN "high" ELSE "medium")

nlpHandle(intent, resolved) ==
    CASE intent = "show_risk" -> nlpHandleShowRisk(resolved)
      [] intent = "explain_results" -> Reply(NlpExplainText, <<>>, "medium")
      [] intent = "emergency_help" ->
            Reply(NlpEmergencyText, <<"emergency_contact">>, "urgent")
      [] intent = "unknown" -> Reply(NlpClarifyText, <<>>, "low")
      [] OTHER -> Reply(NlpOtherText, <<>>, "low")

\* a validation that also refuses the empty text
nlpValidNonEmpty(body) == body.text.type = "string" /\ body.text.value # ""

\* the only validation: text is there and is a string
nlpValid(body) == body.text.type = "string"

\* process: status 400 for a malformed request, 500 for a handler that fails,
\* 200 with the envelope otherwise
nlpProcess(body) ==
    IF ~nlpValid(body)
    THEN [status |-> "400"]
    ELSE LET intent == nlpClassify(body.text.value)
             entities == nlpExtract(body.text.value)
             reply == nlpHandle(intent, nlpMerge(entities, body.risk_data))
         IN  IF reply.failed
             THEN [status |-> "500"]
             ELSE [status |-> "200", intent |-> intent,
                   confidence |-> IF intent = "unknown" THEN "0.3" ELSE "0.9",
                   entities |-> entities,
                   response_text |-> reply.response_text,
                   suggested_actions |-> reply.suggested_actions,
                   should_speak |-> TRUE,
                   priority |-> reply.priority]

NlpInit == nlp = [inbox |-> <<>>, log |-> <<>>]

\* a caller posts a request
NlpPost(text, risk_data) ==
    /\ Len(nlp.inbox) + Len(nlp.log) < MaxRequests
    /\ nlp' = [nlp EXCEPT !.inbox = Append(@, [text |-> text, risk_data |-> risk_data])]
    /\ UNCHANGED notNlp

\* the service answers the oldest request
NlpAnswer ==
    /\ nlp.inbox # <<>>
    /\ nlp' = [inbox |-> Tail(nlp.inbox),
               log |-> Append(nlp.log, [request |-> Head(nlp.inbox),
                                        response |-> nlpProcess(Head(nlp.inbox))])]
    /\ UNCHANGED notNlp

NextNlp ==
    \/ \E text \in NlpBodyTexts, risk_data \in NlpRiskData : NlpPost(text, risk_data)
    \/ NlpAnswer

(***************************************************************************)
(* RiskMonitor (risk-monitor.tsx).  The state of the component is the      *)
(* record monitor; a state change, the render after it and the effect of   *)
(* that render are one step.  Time is counted in interval periods.         *)
(***************************************************************************)
\* the interval fires at most this often
MaxTicks == 3

\* two of the five risk types of current_risks, which are all treated alike
MonitorRiskTypes == { "heart_attack", "stroke" }

\* the fallbacks of mockLiveData (lines 91-98)
DefaultRisk ==
    [heart_attack |-> [probability |-> 500, risk_level |-> "Medium"],
     stroke       |-> [probability |-> 400, risk_level |-> "Medium"]]

RisksExtreme ==
    [heart_attack |-> [probability |-> 996, risk_level |-> "High"],
     stroke       |-> [probability |-> 4, risk_level |-> "Low"]]

\* what the backend may answer to GET /api/recent-predictions?limit=1
MonitorPredictions == { <<>>, <<RisksWithoutHeartAttack>>, <<RisksExtreme>> }

\* the outcomes of Math.random() in mockLiveData: trend and change_since_last
\* (thousandths) per risk type
MockDraws ==
    { [t \in MonitorRiskTypes |-> [trend |-> "stable", change_since_last |-> 30]],
      [t \in MonitorRiskTypes |->
          IF t = "stroke" THEN [trend |-> "decreasing", change_since_last |-> -20]
          ELSE [trend |-> "increasing", change_since_last |-> 45]] }

\* the outcomes of (Math.random() - 0.5) * 0.02, in thousandths
Changes == { -8, 0, 8 }

\* mockLiveData (lines 88-123); risk_trends, next_assessment_due,
\* monitoring_score, alerts and recommendations_update are left out
mockLiveData(risks, draw) ==
    [current_risks |->
        [t \in MonitorRiskTypes |->
            LET given == IF t \in DOMAIN risks THEN Some(risks[t]) ELSE Null
            IN  [probability |->
                    IF given # Null /\ given[1].probability # 0
                    THEN given[1].probability ELSE DefaultRisk[t].probability,
                 risk_level |->
                    IF given # Null THEN given[1].risk_level ELSE DefaultRisk[t].risk_level,
                 trend |-> draw[t].trend,
                 change_since_last |-> draw[t].change_since_last]]]

Max(a, b) == IF a > b THEN a ELSE b
Min(a, b) == IF a < b THEN a ELSE b

\* the loop of updateRealTimeRisks (lines 194-204)
updatedRisks(current_risks, change) ==
    [t \in MonitorRiskTypes |->
        [current_risks[t] EXCEPT
            !.probability = Max(0, Min(1000, @ + change[t])),
            !.change_since_last = change[t],
            !.trend = IF change[t] > 5 THEN "increasing"
                      ELSE IF change[t] < -5 THEN "decreasing" ELSE "stable"]]

\* updateRealTimeRisks of the render whose liveRiskData is captured
updateRealTimeRisks(m, captured, change) ==
    IF captured = Null THEN m
    ELSE [m EXCEPT
            !.liveRiskData =
                IF @ = Null THEN Null
                ELSE Some([@[1] EXCEPT
                            !.current_risks = updatedRisks(captured[1].current_risks, change)]),
            !.lastUpdateTime = m.clock]

\* the effect of lines 53-62: it starts initializeRiskMonitoring (which sets
\* isLoading and fetches) and an interval whose callback keeps the
\* monitoringActive and the updateRealTimeRisks of this render
runEffect(m) ==
    [m EXCEPT !.isLoading = TRUE,
              !.initializing = @ + 1,
              !.interval = Some([monitoringActive |-> m.monitoringActive,
                                 liveRiskData |-> m.liveRiskData])]

\* a render runs the effect if monitoringActive changed
rendered(before, after) ==
    IF after.monitoringActive # before.monitoringActive THEN runEffect(after) ELSE after

\* the body of fetchLatestRiskData once the history has arrived
fetchLatestRiskData(m, history, draw) ==
    [m EXCEPT !.liveRiskData = Some(mockLiveData(history[1], draw)),
              !.lastUpdateTime = m.clock]

MonitorUnmounted ==
    [mounted |-> "no", liveRiskData |-> Null, isLoading |-> TRUE, refreshing |-> FALSE,
     monitoringActive |-> FALSE, lastUpdateTime |-> 0, interval |-> Null,
     initializing |-> 0, refreshes |-> 0, clock |-> 0, event |-> "none"]

MonitorInit == monitor = MonitorUnmounted

\* the main screen is rendered: neither the loader nor the no-data screen
MonitorShown ==
    monitor.mounted = "yes" /\ ~monitor.isLoading /\ monitor.liveRiskData # Null

MonitorStep(m, event) ==
    /\ monitor' = [rendered(monitor, m) EXCEPT !.event = event]
    /\ UNCHANGED notMonitor

MonitorMount ==
    /\ monitor.mounted = "no"
    /\ monitor' = [runEffect([monitor EXCEPT !.mounted = "yes"]) EXCEPT !.event = "mount"]
    /\ UNCHANGED notMonitor

\* the fetch of initializeRiskMonitoring answers (lines 64-75, 77-129)
MonitorInitializeResolve(history, draw) ==
    /\ monitor.mounted = "yes" /\ monitor.initializing > 0
    /\ LET m == [monitor EXCEPT !.initializing = @ - 1, !.isLoading = FALSE]
       IN  IF history = <<>>
           THEN MonitorStep(m, "initialize failed")
           ELSE MonitorStep([fetchLatestRiskData(m, history, draw)
                                EXCEPT !.monitoringActive = TRUE], "initialized")

\* the fetch of initializeRiskMonitoring fails
MonitorInitializeReject ==
    /\ monitor.mounted = "yes" /\ monitor.initializing > 0
    /\ MonitorStep([monitor EXCEPT !.initializing = @ - 1, !.isLoading = FALSE],
                   "initialize failed")

\* the LIVE / OFF button (lines 338-345)
MonitorToggle ==
    /\ MonitorShown
    /\ MonitorStep([monitor EXCEPT !.monitoringActive = ~@], "toggle")

\* pull to refresh (lines 219-223)
MonitorRefresh ==
    /\ MonitorShown /\ ~monitor.refreshing
    /\ MonitorStep([monitor EXCEPT !.refreshing = TRUE, !.refreshes = @ + 1], "refresh")

\* the fetch of onRefresh answers; with no history fetchLatestRiskData throws
\* and refreshing stays set
MonitorRefreshResolve(history, draw) ==
    /\ monitor.mounted = "yes" /\ monitor.refreshes > 0
    /\ LET m == [monitor EXCEPT !.refreshes = @ - 1]
       IN  IF history = <<>>
           THEN MonitorStep(m, "refresh failed")
           ELSE MonitorStep([fetchLatestRiskData(m, history, draw)
                                EXCEPT !.refreshing = FALSE], "refreshed")

MonitorRefreshReject ==
    /\ monitor.mounted = "yes" /\ monitor.refreshes > 0
    /\ MonitorStep([monitor EXCEPT !.refreshes = @ - 1], "refresh failed")

\* the interval fires, 30 seconds after the last time (lines 55-59)
MonitorTick(change) ==
    /\ monitor.mounted = "yes" /\ monitor.interval # Null
    /\ monitor.clock < MaxTicks
    /\ LET m == [monitor EXCEPT !.clock = @ + 1]
       IN  IF monitor.interval[1].monitoringActive
           THEN MonitorStep(updateRealTimeRisks(m, monitor.interval[1].liveRiskData, change),
                            "tick")
           ELSE MonitorStep(m, "tick")

\* the Back button: the component unmounts, the cleanup clears the interval
MonitorBack ==
    /\ MonitorShown
    /\ monitor' = [monitor EXCEPT !.mounted = "gone", !.interval = Null, !.event = "back"]
    /\ UNCHANGED notMonitor

NextMonitor ==
    \/ MonitorMount
    \/ \E history \in MonitorPredictions, draw \in MockDraws :
          MonitorInitializeResolve(history, draw)
    \/ MonitorInitializeReject
    \/ MonitorToggle
    \/ MonitorRefresh
    \/ \E history \in MonitorPredictions, draw \in MockDraws :
          MonitorRefreshResolve(history, draw)
    \/ MonitorRefreshReject
    \/ \E change \in [MonitorRiskTypes -> Changes] : MonitorTick(change)
    \/ MonitorBack

(***************************************************************************)
(* The assessment wizard (assessment.tsx).  The state of the component is  *)
(* the record form.                                                        *)
(***************************************************************************)
\* real-time requests in flight, at most
MaxInFlight == 2

\* real-time requests issued in one visit of the screen, at most
MaxIssued == 3

\* the five steps, each with some of its fields (the others are treated alike)
steps ==
    << [title |-> "Basic Information", fields |-> << "age", "sex" >>],
       [title |-> "Health Metrics",
        fields |-> << "cholesterol", "systolic_bp", "diastolic_bp" >>],
       [title |-> "Medical History", fields |-> << "diabetes" >>],
       [title |-> "Lifestyle Factors", fields |-> << "diet" >>],
       [title |-> "Activity & Wellness", fields |-> << "stress_level" >>] >>

initialData ==
    [age |-> "", sex |-> "Male", cholesterol |-> "", systolic_bp |-> "",
     diastolic_bp |-> "", diabetes |-> "0", diet |-> "Average", stress_level |-> ""]

\* what the user can put into a field: the options of a select (getFieldConfig),
\* the empty text and one text otherwise
FieldValues(field) ==
    CASE field = "sex" -> { "Male", "Female" }
      [] field = "diabetes" -> { "0", "1" }
      [] field = "diet" -> { "Healthy", "Average", "Unhealthy" }
      [] OTHER -> { "", "60" }

\* the fields of steps[currentStep], currentStep counted from 0
FieldsOf(currentStep) ==
    { steps[currentStep + 1].fields[i] : i \in 1..Len(steps[currentStep + 1].fields) }

\* a validation that lets every step pass
validateNothing(m) == TRUE

\* validateCurrentStep: no field of the current step is empty
validateCurrentStep(m) ==
    { field \in FieldsOf(m.currentStep) : m.patientData[field] = "" } = {}

progressText(m) ==
    "Step " \o ToString(m.currentStep + 1) \o " of " \o ToString(Len(steps))

\* calculateRealTimeRisk up to its request: nothing without the essential
\* fields; the requests are numbered in the order they are issued
calculateRealTimeRisk(m, data) ==
    IF data.age = "" \/ data.cholesterol = "" \/ data.systolic_bp = ""
       \/ data.diastolic_bp = ""
    THEN m
    ELSE [m EXCEPT !.issued = @ + 1, !.realtime = @ \cup { m.issued + 1 }]

updateField(m, field, value) ==
    LET newData == [m.patientData EXCEPT ![field] = value]
        m1 == [m EXCEPT !.patientData = newData]
    IN  IF m.currentStep >= 2 THEN calculateRealTimeRisk(m1, newData) ELSE m1

\* handleSubmit up to its request; predictRequest is the patientData the last
\* POST /api/predict was built from
handleSubmit(m) ==
    IF ~validateCurrentStep(m)
    THEN [m EXCEPT !.alertDialog = "Missing Information"]
    ELSE [m EXCEPT !.isLoading = TRUE,
                   !.predicting = @ + 1,
                   !.predictRequest = Some(m.patientData)]

handleNext(m) ==
    IF ~validateCurrentStep(m)
    THEN [m EXCEPT !.alertDialog = "Missing Information"]
    ELSE IF m.currentStep < Len(steps) - 1
    THEN [m EXCEPT !.currentStep = @ + 1]
    ELSE handleSubmit(m)

\* a Back that validates the step first, as Next does
handleBackValidated(m) ==
    IF ~validateCurrentStep(m)
    THEN [m EXCEPT !.alertDialog = "Missing Information"]
    ELSE IF m.currentStep > 0
    THEN [m EXCEPT !.currentStep = @ - 1]
    ELSE [m EXCEPT !.route = "back"]

handleBack(m) ==
    IF m.currentStep > 0
    THEN [m EXCEPT !.currentStep = @ - 1]
    ELSE [m EXCEPT !.route = "back"]

FormUnmounted ==
    [route |-> "none", currentStep |-> 0, patientData |-> initialData,
     isLoading |-> FALSE, showRealTimeRisk |-> FALSE, alertDialog |-> "",
     issued |-> 0, realtime |-> {}, realTimeRisk |-> 0,
     predicting |-> 0, predictRequest |-> Null, event |-> "none"]

FormInit == form = FormUnmounted

FormStep(m, event) ==
    /\ form' = [m EXCEPT !.event = event]
    /\ UNCHANGED notForm

\* the screen is on top and no alert covers it
FormShown == form.route = "assessment" /\ form.alertDialog = ""

FormMount ==
    /\ form.route = "none"
    /\ FormStep([form EXCEPT !.route = "assessment"], "mount")

\* the user types into a text field or presses an option of a select
FormEdit(field, value) ==
    /\ FormShown
    /\ field \in FieldsOf(form.currentStep)
    /\ value # form.patientData[field]
    /\ form.currentStep >= 2 =>
          Cardinality(form.realtime) < MaxInFlight /\ form.issued < MaxIssued
    /\ FormStep(updateField(form, field, value), "edit")

\* the Next / Get Prediction button, disabled while isLoading
FormNext ==
    /\ FormShown /\ ~form.isLoading
    /\ FormStep(handleNext(form), "next")

\* the Back button of the header and the Previous / Cancel button
FormBack ==
    /\ FormShown
    /\ FormStep(handleBack(form), "back")

FormDismissAlert ==
    /\ form.alertDialog # ""
    /\ FormStep([form EXCEPT !.alertDialog = ""], "dismiss")

\* POST /api/predict answers ok: the results page is pushed
FormPredictResolve ==
    /\ form.predicting > 0
    /\ FormStep([form EXCEPT !.predicting = @ - 1, !.isLoading = FALSE,
                             !.route = IF @ = "assessment" THEN "advanced-results" ELSE @],
                "predicted")

\* POST /api/predict fails or answers with an error status
FormPredictReject ==
    /\ form.predicting > 0
    /\ FormStep([form EXCEPT !.predicting = @ - 1, !.isLoading = FALSE,
                             !.alertDialog = "Error"], "predict failed")

\* POST /api/predict-realtime answers, in any order: ok stores the result
\* (realTimeRisk is the number of the request it answers) and shows the live
\* card, otherwise nothing
FormRealTimeAnswer(request, ok) ==
    /\ request \in form.realtime
    /\ FormStep([form EXCEPT !.realtime = @ \ { request },
                             !.realTimeRisk = IF ok THEN request ELSE @,
                             !.showRealTimeRisk = IF ok THEN TRUE ELSE @], "realtime")

NextForm ==
    \/ FormMount
    \/ \E field \in DOMAIN initialData : \E value \in FieldValues(field) :
          FormEdit(field, value)
    \/ FormNext
    \/ FormBack
    \/ FormDismissAlert
    \/ FormPredictResolve
    \/ FormPredictReject
    \/ \E request \in form.realtime : \E ok \in BOOLEAN : FormRealTimeAnswer(request, ok)

(***************************************************************************)
(* AdvancedVoiceFeatures (advanced-voice-features.tsx).  The state of the  *)
(* component is the record advanced; recognizers holds every               *)
(* SpeechRecognition object the screen has created, ref is the index of    *)
(* recognitionRef.current (0 for none), lastSpoken the last call of        *)
(* speakWithPersonality.                                                   *)
(***************************************************************************)
\* SpeechRecognition objects the screen creates, at most
MaxRecognizers == 3

\* the priority of a backend response: the levels of the NLPResponse, and ""
\* for a response without the key
ResponsePriorities == { "low", "medium", "high", "urgent", "critical", "" }

\* line 263: the tone processAdvancedVoiceCommand picks
toneOfPriority(priority) ==
    IF priority = "urgent" THEN "urgent"
    ELSE IF priority = "high" THEN "encouraging"
    ELSE "calming"

\* triggerSmartAlert: the urgency of each alert (lines 320-337)
alerts ==
    [medication |-> "high", exercise |-> "medium", stress |-> "medium",
     emergency |-> "critical"]

\* lines 341-344: the tone triggerSmartAlert picks
toneOfUrgency(urgency) ==
    IF urgency = "critical" THEN "urgent"
    ELSE IF urgency = "high" THEN "encouraging"
    ELSE "calming"

\* the alert types a button of the screen triggers (lines 383, 633, 641)
TriggeredAlerts == { "medication", "stress", "emergency" }

speakWithPersonality(A, source, level, emotionTone) ==
    [A EXCEPT !.lastSpoken = Some([source |-> source, level |-> level,
                                   tone |-> emotionTone])]

\* initializeAdvancedVoiceFeatures: a new recognizer replaces the one in the
\* ref; the old one is neither stopped nor told
initializeAdvancedVoiceFeatures(A) ==
    IF A.supported
    THEN [A EXCEPT !.recognizers = Append(@, "idle"), !.ref = Len(A.recognizers) + 1]
    ELSE A

AdvancedUnmounted ==
    [mounted |-> FALSE, supported |-> FALSE, isVoiceBiometricsEnabled |-> FALSE,
     isListening |-> FALSE, recognizers |-> <<>>, ref |-> 0, alertDialog |-> FALSE,
     pending |-> 0, lastSpoken |-> Null, event |-> "none"]

AdvancedInit == advanced = AdvancedUnmounted

AdvancedStep(A, event) ==
    /\ advanced' = [A EXCEPT !.event = event]
    /\ UNCHANGED notAdvanced

\* the mount effect (lines 111-116); supported: window.SpeechRecognition exists
AdvancedMount(supported) ==
    /\ ~advanced.mounted
    /\ AdvancedStep(initializeAdvancedVoiceFeatures(
                        [advanced EXCEPT !.mounted = TRUE, !.supported = supported]),
                    "mount")

\* the Voice Biometrics switch: the effect of lines 111-116 runs again
AdvancedToggleBiometrics ==
    /\ advanced.mounted
    /\ Len(advanced.recognizers) < MaxRecognizers
    /\ AdvancedStep(initializeAdvancedVoiceFeatures(
                        [advanced EXCEPT !.isVoiceBiometricsEnabled = ~@]),
                    "toggle")

\* startAdvancedListening, the button while isListening is false; start() on
\* a session that has not ended throws, after setIsListening(true)
AdvancedStart ==
    /\ advanced.mounted /\ ~advanced.isListening
    /\ IF advanced.ref = 0
       THEN AdvancedStep([advanced EXCEPT !.alertDialog = TRUE], "start")
       ELSE LET A == [advanced EXCEPT !.isListening = TRUE]
            IN  IF advanced.recognizers[advanced.ref] = "idle"
                THEN AdvancedStep(
                        speakWithPersonality(
                            [A EXCEPT !.recognizers[advanced.ref] = "running"],
                            "greeting", "", "neutral"),
                        "start")
                ELSE AdvancedStep(A, "start")

\* stopAdvancedListening, the button while isListening is true
AdvancedStop ==
    /\ advanced.mounted /\ advanced.isListening
    /\ IF advanced.ref = 0
       THEN AdvancedStep(advanced, "stop")
       ELSE AdvancedStep(
                [advanced EXCEPT !.isListening = FALSE,
                                 !.recognizers[advanced.ref] =
                                     IF @ = "running" THEN "stopping" ELSE @],
                "stop")

\* a session ends: after stop(), after an error or a silence; the screen
\* sets no onend and no onerror
AdvancedRecognitionEnd(i) ==
    /\ advanced.recognizers[i] \in { "running", "stopping" }
    /\ AdvancedStep([advanced EXCEPT !.recognizers[i] = "idle"], "end")

\* onresult of recognizer i: processAdvancedVoiceCommand posts the transcript
AdvancedRecognitionResult(i) ==
    /\ advanced.recognizers[i] \in { "running", "stopping" }
    /\ advanced.pending < MaxInFlight
    /\ AdvancedStep([advanced EXCEPT !.pending = @ + 1], "result")

\* the backend answers (lines 261-264)
AdvancedCommandResolve(priority) ==
    /\ advanced.pending > 0
    /\ AdvancedStep(speakWithPersonality([advanced EXCEPT !.pending = @ - 1],
                                         "command", priority, toneOfPriority(priority)),
                    "answer")

\* the request fails: the catch only logs
AdvancedCommandReject ==
    /\ advanced.pending > 0
    /\ AdvancedStep([advanced EXCEPT !.pending = @ - 1], "no answer")

\* triggerSmartAlert (lines 319-346)
AdvancedSmartAlert(alertType) ==
    /\ advanced.mounted
    /\ AdvancedStep(speakWithPersonality(advanced, "alert", alerts[alertType],
                                         toneOfUrgency(alerts[alertType])),
                    "alert")

AdvancedDismissAlert ==
    /\ advanced.alertDialog
    /\ AdvancedStep([advanced EXCEPT !.alertDialog = FALSE], "dismiss")

NextAdvanced ==
    \/ \E supported \in BOOLEAN : AdvancedMount(supported)
    \/ AdvancedToggleBiometrics
    \/ AdvancedStart
    \/ AdvancedStop
    \/ \E i \in 1..Len(advanced.recognizers) : AdvancedRecognitionEnd(i)
    \/ \E i \in 1..Len(advanced.recognizers) : AdvancedRecognitionResult(i)
    \/ \E priority \in ResponsePriorities : AdvancedCommandResolve(priority)
    \/ AdvancedCommandReject
    \/ \E alertType \in TriggeredAlerts : AdvancedSmartAlert(alertType)
    \/ AdvancedDismissAlert

(***************************************************************************)
(* The specifications: one part runs, the others are left alone.           *)
(***************************************************************************)
\* the parts a specification leaves alone
EnhancedIdle == EnhancedInit /\ window = NoWindow
CoachIdle == coach = CoachUnmounted(NoWindow)
NlpIdle == NlpInit
MonitorIdle == MonitorInit
FormIdle == FormInit
AdvancedIdle == AdvancedInit

Init == EnhancedInit /\ CoachIdle /\ NlpIdle /\ MonitorIdle /\ FormIdle /\ AdvancedIdle

InitCoach == CoachInit /\ EnhancedIdle /\ NlpIdle /\ MonitorIdle /\ FormIdle /\ AdvancedIdle

SpecCoach == InitCoach /\ [][NextCoach]_vars

InitNlp == NlpInit /\ EnhancedIdle /\ CoachIdle /\ MonitorIdle /\ FormIdle /\ AdvancedIdle

SpecNlp == InitNlp /\ [][NextNlp]_vars

InitMonitor == MonitorInit /\ EnhancedIdle /\ CoachIdle /\ NlpIdle /\ FormIdle /\ AdvancedIdle

SpecMonitor == InitMonitor /\ [][NextMonitor]_vars

InitForm == FormInit /\ EnhancedIdle /\ CoachIdle /\ NlpIdle /\ MonitorIdle /\ AdvancedIdle

SpecForm == InitForm /\ [][NextForm]_vars

InitAdvanced ==
    AdvancedInit /\ EnhancedIdle /\ CoachIdle /\ NlpIdle /\ MonitorIdle /\ FormIdle

SpecAdvanced == InitAdvanced /\ [][NextAdvanced]_vars


EnhancedEvents ==
    \/ Mount
    \/ \E data \in RecentPredictions : FetchLatestRiskDataResolve(data)
    \/ FetchLatestRiskDataReject
    \/ MicPress
    \/ RecognitionOnStart
    \/ RecognitionOnEnd
    \/ UtteranceStart
    \/ UtteranceEnd

\* the dialogue: any number of phrases, spoken or tapped
Next ==
    \/ EnhancedEvents
    \/ \E error \in {"no-speech", "network"} : RecognitionOnError(error)
    \/ \E t \in Phrases, r \in 1..Len(tips) : RecognitionOnResult(t, r)
    \/ \E t \in QuickPhrases, r \in 1..Len(tips) : QuickCommand(t, r)

Spec == Init /\ [][Next]_vars

\* one utterance, of any wording
FirstUtterance ==
    \E t \in Utterances, r \in 1..Len(tips) : log = <<>> /\ RecognitionOnResult(t, r)

NextUtterance == EnhancedEvents \/ FirstUtterance

SpecUtterance == Init /\ [][NextUtterance]_vars

(***************************************************************************)
(* Properties.  A log entry is one processed command of EnhancedVoiceUI;   *)
(* an entry of coach.log is one of VoiceAssistant.                         *)
(***************************************************************************)
\* the rules whose pattern matches a text
MatchTable ==
    [t \in Utterances |->
        { k \in 1..Len(voiceCommands) : test(voiceCommands[k].pattern, t) }]

\* the earliest of them in table order, 0 when there is none
EarliestMatch(t) ==
    IF MatchTable[t] = {} THEN 0
    ELSE CHOOSE k \in MatchTable[t] : \A j \in MatchTable[t] : k <= j

RuleOf(action) ==
    CHOOSE k \in 1..Len(voiceCommands) : voiceCommands[k].action = action

CoachMatchTable ==
    [q \in CoachQueries |->
        { k \in 1..Len(coachCommands) :
            \/ includes(q, coachCommands[k].command)
            \/ includes(coachCommands[k].command, q) }]

\* a component that has processed nothing
BlankState ==
    [voiceMessages |-> <<>>, healthAlerts |-> <<>>, synthRef |-> TRUE,
     synthQueue |-> <<>>, isSpeaking |-> FALSE, recognition |-> "listening",
     routerStack |-> <<>>, said |-> <<>>, cancelled |-> {}]

\* the closure of a command that is the only one its component ever gets:
\* spoken, the one of the mount; tapped, the render with the risk data of the
\* command's context and the welcome message
AloneClosure(via, rd) ==
    IF via = "speech" THEN MountClosure
    ELSE [riskData |-> rd,
          voiceMessages |-> << [role |-> "assistant", text |-> WelcomeText] >>,
          isListening |-> FALSE]

RepliesOfAction(action, via, rd, transcript, r) ==
    Replies(BlankState,
            executeVoiceAction(BlankState, AloneClosure(via, rd), action, transcript, r))

AloneReplies(e, r) ==
    Replies(BlankState,
            processVoiceCommand(BlankState, AloneClosure(e.via, e.riskData),
                                e.transcript, r))

\* the keyword of the fallback a text holds, in the order they are tried
KeywordOf ==
    [t \in Utterances |->
        LET q == toLowerCase(t) IN
        IF includes(q, "heart attack") THEN "heart attack"
        ELSE IF includes(q, "stroke") THEN "stroke"
        ELSE IF includes(q, "improve") \/ includes(q, "better") THEN "tip"
        ELSE "none"]

IsTipReply(replies) == \E r \in 1..Len(tips) : replies = << TipText(r) >>

AllLow(said) == \A k \in 1..Len(said) : said[k].priority = "low"

\* C1: every transcript the emergency pattern matches is handled by
\* emergency_help, whatever the context: the reply is the call-911 message and
\* a high-severity emergency alert is raised.
C1_EmergencyAlwaysHandled ==
    \A i \in DOMAIN log :
        RuleOf("emergency_help") \in MatchTable[log[i].transcript]
        => /\ log[i].action = "emergency_help"
           /\ log[i].replies = << EmergencyText >>
           /\ \E k \in 1..Len(log[i].alerts) :
                  /\ log[i].alerts[k].severity = "high"
                  /\ log[i].alerts[k].type = "emergency"

\* C2: whenever emergency_help runs, the call-911 reply is appended to the
\* conversation and its utterance is not cancelled by another speak call of the
\* same command.
C2_EmergencyInstructionDelivered ==
    \A i \in DOMAIN log :
        log[i].action = "emergency_help"
        => /\ \E k \in 1..Len(log[i].replies) : log[i].replies[k] = EmergencyText
           /\ EmergencyText \notin log[i].dropped

\* C3: the action of a text is the action of the earliest rule, in table order,
\* whose pattern matches the text without regard to case, also when later
\* rules match; the reply is the one of that action.  The same holds for the
\* command list of VoiceAssistant.
C3_FirstMatchWins ==
    /\ \A i \in DOMAIN log :
          LET e == log[i]
              k == EarliestMatch(e.transcript)
              action == IF k = 0 THEN "unknown" ELSE voiceCommands[k].action
          IN  /\ e.action = action
              /\ \E r \in 1..Len(tips) :
                    e.replies = RepliesOfAction(action, e.via, e.riskData, e.transcript, r)
    /\ \A q \in CoachQueries :
          /\ coachMatchedCommand(q) = 0 <=> CoachMatchTable[q] = {}
          /\ coachMatchedCommand(q) # 0 =>
                /\ coachMatchedCommand(q) \in CoachMatchTable[q]
                /\ \A j \in CoachMatchTable[q] : coachMatchedCommand(q) <= j

\* a processed text with a capital letter that two rules or more match
C3_Witness ==
    \E i \in DOMAIN log :
        /\ Cardinality(MatchTable[log[i].transcript]) >= 2
        /\ log[i].transcript # toLowerCase(log[i].transcript)
        /\ log[i].action = voiceCommands[EarliestMatch(log[i].transcript)].action

ClaimedIntents ==
    { "show_risk", "explain_results", "start_assessment", "health_tips",
      "medication_reminder", "emergency_help", "next_question", "repeat_last",
      "lifestyle_tips", "unknown" }

\* C7 (as stated): the intent of every processed input is in the claimed set.
C7_IntentInClaimedSet ==
    \A i \in DOMAIN log : log[i].action \in ClaimedIntents

\* C7 (amended): the intent of every processed input, every label of the rule
\* table and every label the dispatch handles is in the claimed set extended by
\* stop_listening.
C7_IntentInExtendedSet ==
    /\ \A i \in DOMAIN log : log[i].action \in ClaimedIntents \cup {"stop_listening"}
    /\ \A k \in 1..Len(voiceCommands) :
          voiceCommands[k].action \in (ClaimedIntents \cup {"stop_listening"}) \ {"unknown"}
    /\ handledActions \subseteq ClaimedIntents \cup {"stop_listening"}

\* the label outside the claimed set has been produced
C7_Witness ==
    \E i \in DOMAIN log :
        /\ log[i].action = "stop_listening"
        /\ log[i].replies = << StopListeningText >>

\* C8: two commands with the same text in the same context get the same intent
\* and priorities, and the same reply unless both replies are tips of the list.
C8_Deterministic ==
    \A i, j \in DOMAIN log :
        (log[i].transcript = log[j].transcript /\ log[i].riskData = log[j].riskData)
        => /\ log[i].action = log[j].action
           /\ [k \in DOMAIN log[i].said |-> log[i].said[k].priority]
                = [k \in DOMAIN log[j].said |-> log[j].said[k].priority]
           /\ \/ log[i].replies = log[j].replies
              \/ IsTipReply(log[i].replies) /\ IsTipReply(log[j].replies)

C10_ShowRiskReportsData ==
    \A i \in DOMAIN log :
        (log[i].action = "show_risk" /\ log[i].riskData # Null)
        => \E k \in 1..Len(log[i].replies) :
              includes(log[i].replies[k],
                       ToString(log[i].riskData[1].heart_attack) \o "%")

\* the reply tells the user to start or complete an assessment
Graceful(text) == includes(text, "assessment")

\* C5: a show-risk request for which no risk data is available is answered,
\* with the reply that tells the user to start an assessment.
C5_NoDataAnsweredGracefully ==
    \A n \in DOMAIN coach.log :
        coach.log[n].fetch = "no risk"
        => \E k \in 1..Len(coach.log[n].replies) : Graceful(coach.log[n].replies[k])

\* C6: every command that has been processed to its end has got exactly one
\* assistant reply.
C6_ExactlyOneReply ==
    \A n \in DOMAIN coach.log :
        coach.log[n].fetch # "pending" => Len(coach.log[n].replies) = 1

(***************************************************************************)
(* The voice NLP service.                                                  *)
(***************************************************************************)
Answered == { nlp.log[i] : i \in 1..Len(nlp.log) }

EntityValues(entities, key) == { e[2] : e \in { x \in entities : x[1] = key } }

\* a request the service classified as show_risk and found no condition in
DefaultPath(e) ==
    /\ e.request.text.type = "string"
    /\ NlpIntentOf[e.request.text.value] = "show_risk"
    /\ EntityValues(NlpEntitiesOf[e.request.text.value], "condition") = {}

OverallOf(risk_data) == { r \in risk_data : r.condition = "overall" }

\* C11: a show_risk request whose text names no condition is answered for the
\* condition "overall" and always gets a well-defined response: the overall
\* figures when the context holds them, the instruction to complete an
\* assessment when it does not (a context without risk data included); the
\* request never fails.
C11_DefaultConditionAnswered ==
    \A e \in Answered :
        DefaultPath(e) =>
            /\ e.response.status = "200"
            /\ e.response.intent = "show_risk"
            /\ IF OverallOf(e.request.risk_data) = {}
               THEN e.response.response_text = NlpNoDataText
               ELSE \E r \in OverallOf(e.request.risk_data) :
                        e.response.response_text =
                            "Your overall risk is "
                            \o ToString(RoundPercent(r.probability)) \o "% ("
                            \o r.risk_level \o ")."

C11_Witness ==
    /\ \E e \in Answered : DefaultPath(e) /\ e.request.risk_data = {}
    /\ \E e \in Answered : DefaultPath(e) /\ OverallOf(e.request.risk_data) # {}

Conditions == { "heart_attack", "stroke", "heart_failure", "arrhythmia" }

\* what a text mentions, keyword by keyword
NlpMentions ==
    [t \in NlpTexts |->
        [condition |-> allKeywords(conditionKeywords, toLowerCase(t)),
         severity |-> allKeywords(severityWords, toLowerCase(t))]]

Extracted == { e \in Answered : e.response.status = "200" }

C14_OnlyMalformedTextRejected ==
    \A e \in Answered :
        IF e.request.text.type = "string"
        THEN /\ e.response.status = "200"
             /\ e.response.response_text # ""
        ELSE e.response.status = "400"

C14_Witness ==
    /\ \E e \in Answered :
          /\ e.request.text = [type |-> "string", value |-> ""]
          /\ e.request.risk_data = {}
    /\ \E e \in Answered : e.request.text.type = "missing"

(***************************************************************************)
(* The phrases the screen advertises.                                      *)
(***************************************************************************)
\* the help text (lines 552-553) and the quick actions (lines 534, 541), with
\* the intents each phrase is advertised for
AdvertisedIntent ==
    [t \in { "Show my heart attack risk", "Give me health tips", "Start new assessment",
             "Explain my results", "Next question", "Repeat last result",
             "show current risk", "give me health tips" } |->
        CASE t \in { "Show my heart attack risk", "show current risk" } -> { "show_risk" }
          [] t \in { "Give me health tips", "give me health tips" } ->
                { "lifestyle_tips", "health_tips" }
          [] t = "Start new assessment" -> { "start_assessment" }
          [] t = "Explain my results" -> { "explain_results" }
          [] t = "Next question" -> { "next_question" }
          [] t = "Repeat last result" -> { "repeat_last" }]

\* C13: every advertised phrase is classified by the rule table to the
\* intent it is advertised for, never to the no-match fallback.
C13_AdvertisedPhrasesClassified ==
    \A i \in DOMAIN log :
        log[i].transcript \in DOMAIN AdvertisedIntent =>
            /\ log[i].action \in AdvertisedIntent[log[i].transcript]
            /\ log[i].replies # << GenericText >>

(***************************************************************************)
(* RiskMonitor.                                                            *)
(***************************************************************************)
\* monitoring is off although risk data is loaded: the user switched it off
MonitorPaused == ~monitor.monitoringActive /\ monitor.liveRiskData # Null

\* C15: once the user has toggled monitoring off it stays off, and the
\* monitor leaves the displayed risk data alone, until the user taps the
\* toggle again: a step that is not a tap on the toggle keeps
\* monitoringActive false, and unless it is the answer to a pull-to-refresh
\* it keeps liveRiskData.
C15_PausedUntilToggledAgain ==
    [][ (MonitorPaused /\ monitor'.event # "toggle") =>
            /\ ~monitor'.monitoringActive
            /\ monitor'.event # "refreshed" => monitor'.liveRiskData = monitor.liveRiskData
      ]_vars

\* C16: a tick of the interval while monitoring is active and data is loaded
\* applies updateRealTimeRisks to the displayed risks (for each risk type the
\* probability moved by the change and clamped, change_since_last, trend) and
\* sets the last-update time; a tick while monitoring is inactive or no data
\* is loaded leaves liveRiskData and lastUpdateTime unchanged.
C16_TickUpdatesDisplayedRisks ==
    [][ monitor'.clock # monitor.clock =>
            IF monitor.monitoringActive /\ monitor.liveRiskData # Null
            THEN /\ \E change \in [MonitorRiskTypes -> Changes] :
                        monitor'.liveRiskData =
                            Some([monitor.liveRiskData[1] EXCEPT
                                    !.current_risks =
                                        updatedRisks(monitor.liveRiskData[1].current_risks,
                                                     change)])
                 /\ monitor'.lastUpdateTime = monitor'.clock
            ELSE /\ monitor'.liveRiskData = monitor.liveRiskData
                 /\ monitor'.lastUpdateTime = monitor.lastUpdateTime
      ]_vars

(***************************************************************************)
(* The assessment wizard.                                                  *)
(***************************************************************************)
AllFields == UNION { FieldsOf(k) : k \in 0..(Len(steps) - 1) }

Filled(data, fields) == \A field \in fields : data[field] # ""

\* C17: a prediction request (POST /api/predict) is only ever built from
\* patient data in which every field of all five steps is non-empty, and the
\* step never moves forward from a step that has an empty field.
C17_NoPartialSubmission ==
    /\ [](form.predictRequest # Null => Filled(form.predictRequest[1], AllFields))
    /\ [][ form'.currentStep > form.currentStep =>
                Filled(form.patientData, FieldsOf(form.currentStep)) ]_vars

\* a request went out, and later a Next on a step with an emptied field was
\* refused
C17_Witness ==
    /\ form.predictRequest # Null
    /\ form.event = "next" /\ form.alertDialog = "Missing Information"
    /\ ~Filled(form.patientData, FieldsOf(form.currentStep))

\* C18: currentStep stays within 0..4 and the progress text is step
\* currentStep + 1 of 5; a Next on a complete step 0..3 adds exactly one; a
\* Next on a complete step 4 sends the request and keeps the step; a Back on
\* steps 1..4 subtracts exactly one whether or not the step is complete; a
\* Back on step 0 leaves the screen and keeps the step.
C18_StepNavigation ==
    /\ [](/\ form.currentStep \in 0..4
          /\ progressText(form) = "Step " \o ToString(form.currentStep + 1) \o " of 5")
    /\ [][ /\ (form'.event = "next" /\ Filled(form.patientData, FieldsOf(form.currentStep))) =>
                IF form.currentStep <= 3
                THEN /\ form'.currentStep = form.currentStep + 1
                     /\ form'.predicting = form.predicting
                ELSE /\ form'.currentStep = form.currentStep
                     /\ form'.predicting = form.predicting + 1
                     /\ form'.predictRequest = Some(form.patientData)
           /\ form'.event = "back" =>
                IF form.currentStep >= 1
                THEN /\ form'.currentStep = form.currentStep - 1
                     /\ form'.route = "assessment"
                ELSE /\ form'.currentStep = form.currentStep
                     /\ form'.route = "back"
         ]_vars

\* a Back from the last step while its field is empty
C18_Witness ==
    /\ form.event = "back" /\ form.currentStep = 3
    /\ form.patientData.stress_level = ""

(***************************************************************************)
(* VoiceAssistant: urgency detection.                                      *)
(***************************************************************************)
\* the queries that hold one of the emergency keywords
CoachEmergencyQuery ==
    [query \in CoachQueries |->
        \/ includes(toLowerCase(query), "emergency")
        \/ includes(toLowerCase(query), "urgent")
        \/ includes(toLowerCase(query), "call doctor")]

\* C19: every query handed to getAIHealthCoachResponse that contains
\* 'emergency', 'urgent' or 'call doctor' gets the emergency reply with the
\* action show_emergency_info, whatever other keywords it contains.
C19_EmergencyQueryGetsEmergencyReply ==
    \A i \in DOMAIN coach.log :
        LET e == coach.log[i] IN
        (e.matched = 0 /\ CoachEmergencyQuery[e.command]) =>
            /\ e.replies = << CoachEmergencyText >>
            /\ getAIHealthCoachResponse(e.command).action = "show_emergency_info"

(***************************************************************************)
(* EnhancedVoiceUI: repeat_last.                                           *)
(***************************************************************************)
\* the assistant messages of the conversation before command number i
AssistantBefore(i) ==
    SelectSeq(SubSeq(voiceMessages, 1, log[i].before), IsAssistant)

\* C20: a command classified as repeat_last is answered with "I'll repeat
\* that: " and the text of the most recent assistant message whenever the
\* conversation holds an assistant message, and with the nothing-to-repeat
\* reply only when it holds none.
C20_RepeatsLastAssistantMessage ==
    \A i \in DOMAIN log :
        log[i].action = "repeat_last" =>
            LET prior == AssistantBefore(i)
            IN  IF prior # <<>>
                THEN log[i].replies = << RepeatPrefix \o prior[Len(prior)].text >>
                ELSE log[i].replies = << NothingToRepeatText >>

(***************************************************************************)
(* EnhancedVoiceUI: stop_listening.                                        *)
(***************************************************************************)
\* this step processes a spoken transcript classified as stop_listening
\* while the recognition session is running
StopHeardWhileListening ==
    /\ recognition = "listening" /\ isListening
    /\ Len(log') = Len(log) + 1
    /\ log'[Len(log')].via = "speech"
    /\ log'[Len(log')].action = "stop_listening"

\* C21: a transcript classified as stop_listening that is processed while
\* speech recognition is running stops the recognition: recognition.stop() is
\* called, so the session is no longer listening and delivers no further
\* transcript until the user starts it again.
C21_StopCommandStopsRecognition ==
    [][ StopHeardWhileListening => recognition' = "stopping" ]_vars

RunningSessions ==
    { i \in 1..Len(advanced.recognizers) : advanced.recognizers[i] = "running" }

\* C25: isListening is true exactly when a speech-recognition session is
\* running: never true without a running session, and no session still runs
\* once stopAdvancedListening has set it to false.
C25_ListeningIffSessionRunning ==
    advanced.isListening <=> RunningSessions # {}

\* the commands whose phrase a transcript contains
CoachPhrasesIn ==
    [q \in CoachQueries |->
        { k \in 1..Len(coachCommands) : includes(q, coachCommands[k].command) }]

\* C23: in the AI Health Coach a direct command is executed only for a
\* transcript that contains the command's phrase; a transcript that contains
\* none of the phrases, a single short word included, goes to handleAIQuery.
C23_CommandOnlyWhenPhraseHeard ==
    \A n \in 1..Len(coach.log) :
        LET e == coach.log[n]
        IN  /\ e.matched # 0 => e.matched \in CoachPhrasesIn[e.command]
            /\ CoachPhrasesIn[e.command] = {} => e.matched = 0

\* C24: the live risk of the assessment comes from the most recently issued
\* real-time request: in whatever order the answers of overlapping
\* /api/predict-realtime requests arrive, the answer of an older request never
\* replaces the result of a newer one in realTimeRisk.
C24_OlderAnswerNeverReplacesNewer ==
    [][ form'.realTimeRisk >= form.realTimeRisk ]_vars

====
